---- MODULE Spec2Model ----
(***************************************************************************)
(* The crawl orchestration core of url-crawler-backend                     *)
(* (internal/crawler/crawler.go): the bounded job queue, the worker pool,  *)
(* the Start/Stop lifecycle and the per-job pipeline, together with the    *)
(* record store operations the pipeline calls (internal/db,                *)
(* internal/service).                                                      *)
(*                                                                         *)
(* One action is one step a goroutine takes between two points where       *)
(* another goroutine can observe or change shared state: a lifecycle call  *)
(* under the service mutex, a channel operation, one store call, the start *)
(* and the end of the HTTP fetch.                                          *)
(***************************************************************************)
EXTENDS Integers, Sequences, FiniteSets, TLC

\* ---------------------------------------------------------------- bounds
NumWorkers == 2     \* Config.Workers of the pool under test
QueueSize  == 2     \* Config.QueueSize of the pool under test
MaxId      == 1     \* record ids 1..MaxId
MaxPage    == 1     \* distinct page contents a fetch can return
MaxCalls   == 4     \* Start, Stop and NotifyNewURL calls made in one run
MaxStoreFails == 1  \* store calls that fail in one run
MaxSubmitId == 2    \* ids 1..MaxSubmitId a caller may submit, stored or not
MaxElems   == 3     \* elements of an analysed document
MaxBulkIds == 2     \* ids named by one bulk request

WorkerIds == 1..NumWorkers
Ids       == 1..MaxId
Pages     == 1..MaxPage
SubmitIds == 1..MaxSubmitId

\* ------------------------------------------------------- program constants
StatusQueued  == "queued"
StatusRunning == "running"
StatusDone    == "done"
StatusError   == "error"
URLStatus     == {StatusQueued, StatusRunning, StatusDone, StatusError}

StatusOK    == 200                 \* http.StatusOK
StatusCodes == {StatusOK, 404}     \* what the fetched server may answer

\* ------------------------------------------------------------ error values
\* An error is what fmt.Errorf builds: the format, its %d argument and the
\* wrapped cause. NoError is the empty string written by a success path.
Errorf(fmt, code, cause) == [fmt |-> fmt, code |-> code, cause |-> cause]
NoError        == Errorf("", 0, "")
ErrStore       == Errorf("store", 0, "database error")
ErrCanceled    == "context canceled"
ErrDeadline    == "context deadline exceeded"

StatusText(code) == IF code = 404 THEN "404 Not Found" ELSE "other"

\* crawlWithContext's three error results
FetchError(cause) == Errorf("failed to fetch URL: %w", 0, cause)
\* (variant: the status line without the numeric code)
HTTPErrorNoCode(code) == Errorf("HTTP error: %s", 0, StatusText(code))
HTTPError(code)   == Errorf("HTTP %d: %s", code, StatusText(code))
ParseError        == Errorf("failed to parse HTML: %w", 0, "read error")

\* the text of an error contains the decimal code c
MentionsCode(err, c) == err.fmt = "HTTP %d: %s" /\ err.code = c

\* ---------------------------------------------------------- page analysis
\* A document is the sequence of its elements in document order. An element
\* has its tag, whether it has a form ancestor, its type and href attributes
\* ("" when absent) and its text.
Element(tag, form, type, href, text) ==
    [tag |-> tag, form |-> form, type |-> type, href |-> href, text |-> text]

\* the href strings the analysed pages use
Hrefs == {"", "/about", "http://site.example/about", "http://other.example/",
          "mailto:a@b", ":foo"}

Elements ==
    {Element(t, FALSE, "", "", "") : t \in {"h1", "h2", "h6"}}
    \cup {Element("input", f, "password", "", "") : f \in BOOLEAN}
    \cup {Element("input", TRUE, "text", "", "")}
    \cup {Element("a", FALSE, "", h, "") : h \in Hrefs}
    \cup {Element("title", FALSE, "", "", "Home")}
    \cup {Element("p", FALSE, "", "", "XHTML")}

Documents == UNION {[1..n -> Elements] : n \in 0..MaxElems}

\* net/url: a URL value; url.Parse of the href strings in use. ":foo" has no
\* scheme before its colon and is the one that fails to parse.
URL(scheme, host, path, opaque) ==
    [ok |-> TRUE, scheme |-> scheme, host |-> host, path |-> path, opaque |-> opaque]
ParseFailure == [URL("", "", "", "") EXCEPT !.ok = FALSE]

Parse(href) ==
    CASE href = "/about"                    -> URL("", "", "/about", "")
      [] href = "http://site.example/about" -> URL("http", "site.example", "/about", "")
      [] href = "http://site.example/"      -> URL("http", "site.example", "/", "")
      [] href = "http://other.example/"     -> URL("http", "other.example", "/", "")
      [] href = "mailto:a@b"                -> URL("mailto", "", "", "a@b")
      [] href = ""                          -> URL("", "", "", "")
      [] OTHER                              -> ParseFailure

IsAbs(u) == u.scheme # ""

\* (*URL).ResolveReference for a reference without a scheme: the base's
\* scheme, the reference's host if it has one, else the base's host with the
\* reference's (absolute) path.
ResolveReference(base, ref) ==
    IF ref.host # ""
    THEN [ref EXCEPT !.scheme = base.scheme]
    ELSE [ref EXCEPT !.scheme = base.scheme, !.host = base.host]

\* (*URL).String
String(u) ==
    IF u.opaque # "" THEN u.scheme \o ":" \o u.opaque
    ELSE u.scheme \o "://" \o u.host \o u.path

\* strconv.Itoa of the codes a probe can yield
Itoa(n) ==
    CASE n = 200 -> "200" [] n = 404 -> "404" [] n = 500 -> "500"

\* the address of the analysed page
BaseAddress == "http://site.example/"

\* the URLs a probe of these pages can reach over HTTP, and what a server
\* may do with the HEAD request: answer 200 or 404, or not answer (0)
ProbeUrls == {"http://site.example/about", "http://other.example/"}
Responses == [ProbeUrls -> {200, 404, 0}]

\* doc.Find(tag): the elements with that tag, in document order
Find(d, tag) == SelectSeq(d, LAMBDA e : e.tag = tag)

\* Selection.Text(): the text nodes of the selected elements, in order
Text(sel) == [i \in 1..Len(sel) |-> sel[i].text]

ToLower(t) == IF t = "XHTML" THEN "xhtml" ELSE t

\* detectHTMLVersion: "!DOCTYPE" selects no element, so the answer rests on
\* whether the lower-cased text of the document contains "xhtml".
detectHTMLVersion(d) ==
    IF Len(Find(d, "!DOCTYPE")) > 0 THEN "HTML5"
    ELSE IF \E i \in 1..Len(d) : ToLower(d[i].text) = "xhtml" THEN "XHTML"
    ELSE "HTML5"

\* (variant: only the tags that occur get a key)
countHeadingsPresent(d) ==
    [t \in {d[i].tag : i \in 1..Len(d)} \cap {"h1", "h2", "h3", "h4", "h5", "h6"}
        |-> Len(Find(d, t))]

\* countHeadings: for i = 1..6, headings["h" + Itoa(i)] = Find(tag).Length()
countHeadings(d) ==
    LET tag == <<"h1", "h2", "h3", "h4", "h5", "h6">>
    IN  [t \in {tag[i] : i \in 1..6} |-> Len(Find(d, t))]

\* (variant: any password input counts, inside a form or not)
detectLoginFormAnywhere(d) ==
    Len(SelectSeq(d, LAMBDA e : e.tag = "input" /\ e.type = "password")) > 0

\* detectLoginForm: doc.Find("form input[type='password']").Length() > 0
detectLoginForm(d) ==
    Len(SelectSeq(d, LAMBDA e :
            e.tag = "input" /\ e.type = "password" /\ e.form)) > 0

\* (variant: a probe that cannot be sent or gets no answer yields no code)
checkLinkNoCode(link, resp) ==
    IF link \notin ProbeUrls THEN 0
    ELSE resp[link]

\* checkLink: the status code of a HEAD request; 500 when the request
\* cannot be sent (a scheme the client does not speak) or gets no answer.
checkLink(link, resp) ==
    IF link \notin ProbeUrls THEN 500
    ELSE IF resp[link] = 0 THEN 500
    ELSE resp[link]

\* what analyzeLinks has accumulated: linksChecked and its three results,
\* with the checkLink calls made so far (href, link probed, code returned)
NoLinks == [checked |-> {}, internal |-> 0, external |-> 0, broken |-> <<>>,
            probed |-> <<>>]

\* the part of analyzeLinks' callback after the href has been parsed
classifyLink(acc, href, base, resp) ==
    LET p       == Parse(href)
        linkURL == IF IsAbs(p) THEN p ELSE ResolveReference(base, p)
        counted == IF linkURL.host # "" /\ linkURL.host # base.host
                   THEN [acc EXCEPT !.external = @ + 1]
                   ELSE [acc EXCEPT !.internal = @ + 1]
        code    == checkLink(String(linkURL), resp)
        checked == [counted EXCEPT !.probed =
                       Append(@, [href |-> href, url |-> String(linkURL),
                                  code |-> code])]
    IN  IF linkURL.scheme = "" THEN counted
        ELSE IF code >= 400
        THEN [checked EXCEPT !.broken =
                 Append(@, [url |-> String(linkURL), code |-> Itoa(code)])]
        ELSE checked

\* (variant: the callback without the linksChecked test)
visitLinkNoDedupe(acc, href, base, resp) ==
    IF href = "" THEN acc
    ELSE IF ~Parse(href).ok THEN acc
    ELSE classifyLink(acc, href, base, resp)

\* (variant: the callback never records the href in linksChecked)
visitLinkNeverMarks(acc, href, base, resp) ==
    IF href = "" \/ href \in acc.checked THEN acc
    ELSE IF ~Parse(href).ok THEN acc
    ELSE classifyLink(acc, href, base, resp)

\* analyzeLinks' callback for one a[href] element
visitLink(acc, href, base, resp) ==
    IF href = "" \/ href \in acc.checked THEN acc
    ELSE LET seen == [acc EXCEPT !.checked = @ \cup {href}]
         IN  IF ~Parse(href).ok THEN seen
             ELSE classifyLink(seen, href, base, resp)

\* analyzeLinks: doc.Find("a[href]").Each(callback), in document order
RECURSIVE eachLink(_, _, _, _)
eachLink(anchors, acc, base, resp) ==
    IF anchors = <<>> THEN acc
    ELSE eachLink(Tail(anchors),
                  visitLink(acc, Head(anchors).href, base, resp), base, resp)

analyzeLinks(d, base, resp) == eachLink(Find(d, "a"), NoLinks, base, resp)

\* parseDocument: the CrawlResult of a document fetched from baseAddress
parseDocument(d, baseAddress, resp) ==
    LET links == analyzeLinks(d, Parse(baseAddress), resp)
    IN  [Title         |-> Text(Find(d, "title")),
         HTMLVersion   |-> detectHTMLVersion(d),
         HeadingCounts |-> countHeadings(d),
         HasLoginForm  |-> detectLoginForm(d),
         InternalLinks |-> links.internal,
         ExternalLinks |-> links.external,
         BrokenList    |-> links.broken]

\* no document analysed yet
NoCrawl == [Title |-> <<>>, HTMLVersion |-> "", HeadingCounts |-> <<>>,
            HasLoginForm |-> FALSE, InternalLinks |-> 0, ExternalLinks |-> 0,
            BrokenList |-> <<>>]

\* ------------------------------------------------------------------ state
VARIABLES
    isRunning,   \* Service.isRunning
    queue,       \* buffered contents of Service.queue
    closed,      \* Service.queue has been closed
    cancelled,   \* Service.ctx has been cancelled
    wg,          \* Service.wg counter
    mu,          \* Service.mu: "free" or "W" (held by a Stop waiting on wg)
    urls,        \* the urls table: id -> row
    wpc,         \* per worker: position in worker/processURL
    wjob,        \* per worker: the id it dequeued (0: none)
    wcode,       \* per worker: resp.StatusCode of its fetch (0: no response)
    wres,        \* per worker: the CrawlResult it computed (0: none)
    werr,        \* per worker: the err it is about to record
    ret,         \* the latest Start, Stop or NotifyNewURL call and its outcome
    stopBefore,  \* history: the call before the latest was a Stop that returned
    calls,       \* history: number of lifecycle calls made
    stopCalled,  \* history: Stop has shut the pool down at least once
    storeFails,  \* history: number of store calls that failed
    doc,         \* page analysis: the parsed document (its elements in order)
    respond,     \* page analysis: how the linked servers answer a probe
    crawl,       \* page analysis: the CrawlResult of parseDocument (or none)
    probes,      \* page analysis: history, the checkLink calls of that analysis
    row,         \* record columns: one urls row, column by column
    bulk         \* the bulk handler's request: its position, the ids it has
                 \* still to notify and the ids whose notify was accepted

pool    == <<isRunning, queue, closed, cancelled, wg, mu>>
wlocals == <<wpc, wjob, wcode, wres, werr>>
calllog == <<ret, stopBefore, calls>>
analysis == <<doc, respond, crawl, probes, row>>
vars    == <<isRunning, queue, closed, cancelled, wg, mu, urls,
             wpc, wjob, wcode, wres, werr, ret, stopBefore, calls, stopCalled, storeFails,
             doc, respond, crawl, probes, row, bulk>>

\* json.Marshal of a slice (a nil slice encodes as null) and of a map: the
\* text stored in the column and the items it holds; a column never written
\* holds the empty string.
MarshalList(list) ==
    [text |-> IF Len(list) = 0 THEN "null" ELSE "array", items |-> list]
MarshalMap(m) == [text |-> "object", items |-> m]
NoText == [text |-> "", items |-> <<>>]

\* the urls row db.Create inserts for CreateURL: status queued, every other
\* column its zero value
NewRow ==
    [title |-> <<>>, html_version |-> "", heading_counts |-> NoText,
     internal_links |-> 0, external_links |-> 0,
     broken_links |-> 0, broken_list |-> NoText, has_login_form |-> FALSE,
     status |-> StatusQueued, error |-> NoError]

\* gorm's Updates(map): the columns named by the map are set, the others kept
Updates(r, updates) ==
    [c \in DOMAIN r |-> IF c \in DOMAIN updates THEN updates[c] ELSE r[c]]

\* the updates map of db.UpdateURLStatus
statusUpdates(status, errorMsg) == [status |-> status, error |-> errorMsg]

\* (variant: the count of broken links is left out of the map)
resultUpdatesNoCount(result) ==
    [title          |-> result.Title,
     html_version   |-> result.HTMLVersion,
     heading_counts |-> MarshalMap(result.HeadingCounts),
     internal_links |-> result.InternalLinks,
     external_links |-> result.ExternalLinks,
     broken_list    |-> MarshalList(result.BrokenList),
     has_login_form |-> result.HasLoginForm,
     status         |-> StatusDone,
     error          |-> NoError]

\* the updates map of updateURLWithResults
resultUpdates(result) ==
    [title          |-> result.Title,
     html_version   |-> result.HTMLVersion,
     heading_counts |-> MarshalMap(result.HeadingCounts),
     internal_links |-> result.InternalLinks,
     external_links |-> result.ExternalLinks,
     broken_links   |-> Len(result.BrokenList),
     broken_list    |-> MarshalList(result.BrokenList),
     has_login_form |-> result.HasLoginForm,
     status         |-> StatusDone,
     error          |-> NoError]

\* no bulk request has been made
NoBulk == [pc |-> "idle", todo |-> <<>>, sent |-> {}]

\* A row as CreateURL inserts it.
NewURL == [status |-> StatusQueued, error |-> NoError, result |-> 0]

Called(op, arg, out) == [op |-> op, arg |-> arg, out |-> out]

\* An unrecovered panic in Stop (its only caller is main) ends the process.
Crashed == ret = Called("stop", 0, "panic")

\* Bookkeeping of a call that ends with outcome out.
Return(op, arg, out) ==
    /\ ret' = Called(op, arg, out)
    /\ stopBefore' = (ret = Called("stop", 0, "ok"))
    /\ calls' = calls + 1

\* A store call may fail (connection lost, deadlock victim, ...).
StoreFails ==
    /\ storeFails < MaxStoreFails
    /\ storeFails' = storeFails + 1

\* The service as NewService returns it, over a store that holds some rows.
NewService ==
    /\ isRunning = FALSE
    /\ queue = <<>>
    /\ closed = FALSE
    /\ cancelled = FALSE
    /\ wg = 0
    /\ mu = "free"
    /\ urls \in UNION {[S -> {NewURL}] : S \in SUBSET Ids}
    /\ wpc = [w \in WorkerIds |-> "none"]
    /\ wjob = [w \in WorkerIds |-> 0]
    /\ wcode = [w \in WorkerIds |-> 0]
    /\ wres = [w \in WorkerIds |-> 0]
    /\ werr = [w \in WorkerIds |-> NoError]
    /\ ret = Called("none", 0, "none")
    /\ stopBefore = FALSE
    /\ calls = 0
    /\ stopCalled = FALSE
    /\ storeFails = 0

Init ==
    /\ NewService
    /\ doc = <<>>
    /\ respond = [u \in ProbeUrls |-> 200]
    /\ crawl = NoCrawl
    /\ probes = <<>>
    /\ row = NewRow
    /\ bulk = NoBulk

\* ------------------------------------------------------------ record store
\* db.GetURLByID: the row, or an error when there is none.
Found(id) == id \in DOMAIN urls

\* (variant: the status update saves a whole row built from status and error)
UpdateURLStatusSave(id, status, errorMsg) ==
    [i \in DOMAIN urls |->
        IF i = id THEN [status |-> status, error |-> errorMsg, result |-> 0]
        ELSE urls[i]]

\* db.UpdateURLStatus: UPDATE urls SET status, error WHERE id = ?
\* (no row matched: nothing changes and no error is returned).
UpdateURLStatus(id, status, errorMsg) ==
    [i \in DOMAIN urls |->
        IF i = id THEN [urls[i] EXCEPT !.status = status, !.error = errorMsg]
        ELSE urls[i]]

\* (variant: the result update leaves the error column alone)
updateURLWithResultsKeepError(id, result) ==
    [i \in DOMAIN urls |->
        IF i = id THEN [urls[i] EXCEPT !.status = StatusDone, !.result = result]
        ELSE urls[i]]

\* updateURLWithResults: one UPDATE that writes the result columns, status
\* done and the empty error.
updateURLWithResults(id, result) ==
    [i \in DOMAIN urls |->
        IF i = id THEN [status |-> StatusDone, error |-> NoError, result |-> result]
        ELSE urls[i]]

\* ------------------------------------------------------------- lifecycle
\* Start, Stop and NotifyNewURL take Service.mu on entry; a call made while
\* Stop holds it waits, so its body runs only when mu is free.
Unlocked == mu = "free" /\ ~Crashed /\ calls < MaxCalls

\* (variant: Start without the isRunning check)
StartNoGuard ==
    /\ Unlocked
    /\ isRunning' = TRUE
    /\ wg' = wg + NumWorkers
    /\ wpc' = [w \in WorkerIds |-> "select"]
    /\ Return("start", 0, "ok")
    /\ UNCHANGED <<queue, closed, cancelled, mu, wjob, wcode, wres, werr,
                   urls, stopCalled, storeFails>>
    /\ UNCHANGED <<analysis, bulk>>

\* (variant: Start spawns its workers before it tests the flag)
StartSpawnFirst ==
    /\ Unlocked
    /\ wg' = wg + NumWorkers
    /\ wpc' = [w \in WorkerIds |-> IF wpc[w] = "none" THEN "select" ELSE wpc[w]]
    /\ IF isRunning
       THEN /\ Return("start", 0, "AlreadyRunning")
            /\ UNCHANGED isRunning
       ELSE /\ isRunning' = TRUE
            /\ Return("start", 0, "ok")
    /\ UNCHANGED <<queue, closed, cancelled, mu, wjob, wcode, wres, werr,
                   urls, stopCalled, storeFails>>
    /\ UNCHANGED <<analysis, bulk>>

Start ==
    /\ Unlocked
    /\ IF isRunning
       THEN /\ Return("start", 0, "AlreadyRunning")
            /\ UNCHANGED <<pool, wlocals>>
       ELSE /\ isRunning' = TRUE
            /\ wg' = wg + NumWorkers
            /\ wpc' = [w \in WorkerIds |-> "select"]
            /\ Return("start", 0, "ok")
            /\ UNCHANGED <<queue, closed, cancelled, mu, wjob, wcode, wres, werr>>
    /\ UNCHANGED <<urls, stopCalled, storeFails>>
    /\ UNCHANGED <<analysis, bulk>>

\* (variant: Stop without the early return)
StopBeginNoGuard ==
    /\ Unlocked
    /\ isRunning' = FALSE
    /\ cancelled' = TRUE
    /\ stopCalled' = TRUE
    /\ IF closed
       THEN /\ Return("stop", 0, "panic")
            /\ UNCHANGED <<closed, mu>>
       ELSE /\ closed' = TRUE
            /\ mu' = "W"
            /\ Return("stop", 0, "waiting")
    /\ UNCHANGED <<queue, wg, urls, wlocals, storeFails>>
    /\ UNCHANGED <<analysis, bulk>>

\* Stop up to wg.Wait(): the early return, or flag, cancel and close.
\* close of a closed channel panics; the deferred Unlock runs.
StopBegin ==
    /\ Unlocked
    /\ IF ~isRunning
       THEN /\ Return("stop", 0, "ok")
            /\ UNCHANGED <<pool, stopCalled>>
       ELSE /\ isRunning' = FALSE
            /\ cancelled' = TRUE
            /\ stopCalled' = TRUE
            /\ IF closed
               THEN /\ Return("stop", 0, "panic")
                    /\ UNCHANGED <<closed, mu>>
               ELSE /\ closed' = TRUE
                    /\ mu' = "W"
                    /\ Return("stop", 0, "waiting")
            /\ UNCHANGED <<queue, wg>>
    /\ UNCHANGED <<urls, wlocals, storeFails>>
    /\ UNCHANGED <<analysis, bulk>>

\* (variant: Stop returns without waiting for the workers)
StopEndNoWait ==
    /\ mu = "W"
    /\ mu' = "free"
    /\ ret' = Called("stop", 0, "ok")
    /\ UNCHANGED <<isRunning, queue, closed, cancelled, wg, urls, wlocals,
                   stopBefore, calls, stopCalled, storeFails>>
    /\ UNCHANGED <<analysis, bulk>>

\* wg.Wait() returns, then the deferred Unlock and return nil.
StopEnd ==
    /\ mu = "W"
    /\ wg = 0
    /\ mu' = "free"
    /\ ret' = Called("stop", 0, "ok")
    /\ UNCHANGED <<isRunning, queue, closed, cancelled, wg, urls, wlocals,
                   stopBefore, calls, stopCalled, storeFails>>
    /\ UNCHANGED <<analysis, bulk>>

\* (variant: NotifyNewURL without the isRunning check)
NotifyNewURLNoCheck(id) ==
    /\ Unlocked
    /\ IF closed
       THEN /\ Return("submit", id, "panic")
            /\ UNCHANGED queue
       ELSE IF Len(queue) < QueueSize
       THEN /\ queue' = Append(queue, id)
            /\ Return("submit", id, "ok")
       ELSE /\ Return("submit", id, "QueueFull")
            /\ UNCHANGED queue
    /\ UNCHANGED <<isRunning, closed, cancelled, wg, mu, urls, wlocals,
                   stopCalled, storeFails>>
    /\ UNCHANGED analysis

\* (variant: NotifyNewURL reads the flag without taking Service.mu: a call
\* that read it as true proceeds to the send while Stop closes the queue)
NotifyNewURLNoLock(id) ==
    /\ ~Crashed
    /\ calls < MaxCalls
    /\ IF ~isRunning /\ mu = "free"
       THEN /\ Return("submit", id, "NotRunning")
            /\ UNCHANGED queue
       ELSE IF closed
       THEN /\ Return("submit", id, "panic")
            /\ UNCHANGED queue
       ELSE IF Len(queue) < QueueSize
       THEN /\ queue' = Append(queue, id)
            /\ Return("submit", id, "ok")
       ELSE /\ Return("submit", id, "QueueFull")
            /\ UNCHANGED queue
    /\ UNCHANGED <<isRunning, closed, cancelled, wg, mu, urls, wlocals,
                   stopCalled, storeFails>>
    /\ UNCHANGED analysis

\* NotifyNewURL: a send on a closed channel panics, also inside a select
\* with a default case; its callers run under gin.Recovery.
NotifyNewURL(id) ==
    /\ Unlocked
    /\ IF ~isRunning
       THEN /\ Return("submit", id, "NotRunning")
            /\ UNCHANGED queue
       ELSE IF closed
       THEN /\ Return("submit", id, "panic")
            /\ UNCHANGED queue
       ELSE IF Len(queue) < QueueSize
       THEN /\ queue' = Append(queue, id)
            /\ Return("submit", id, "ok")
       ELSE /\ Return("submit", id, "QueueFull")
            /\ UNCHANGED queue
    /\ UNCHANGED <<isRunning, closed, cancelled, wg, mu, urls, wlocals,
                   stopCalled, storeFails>>
    /\ UNCHANGED analysis

\* PostURLHandler: the submit of one id by a caller other than the bulk
\* handler.
Submit(id) ==
    /\ NotifyNewURL(id)
    /\ UNCHANGED bulk

\* ----------------------------------------------------------- bulk handler
\* the id lists of a bulk request whose ids are all rows of the requester
BulkIds == UNION {[1..n -> Ids] : n \in 1..MaxBulkIds}

\* the id lists of a bulk request that may also name rows of another user
AnyBulkIds == UNION {[1..n -> SubmitIds] : n \in 1..MaxBulkIds}

\* userCtx.UserID of the bulk request: the authenticated user.
Requester == 1

\* The user_id column of row id, set when the row is created and never
\* written again: the last id is a row of user 2, the others are rows of
\* user 1.
UserID(id) == IF id < MaxSubmitId THEN 1 ELSE 2

\* WHERE id IN ids AND user_id = user
Matches(user, ids, i) ==
    /\ \E k \in 1..Len(ids) : ids[k] = i
    /\ UserID(i) = user

\* UPDATE urls SET status = queued, error = "" WHERE id IN ids AND
\* user_id = user: the result columns stay, and the current status is not
\* looked at.
ResetURLs(user, ids) ==
    [i \in DOMAIN urls |->
        IF Matches(user, ids, i)
        THEN [urls[i] EXCEPT !.status = StatusQueued, !.error = NoError]
        ELSE urls[i]]

\* DELETE FROM urls WHERE id IN ids AND user_id = user
DeleteURLs(user, ids) ==
    [i \in {j \in DOMAIN urls : ~Matches(user, ids, j)} |-> urls[i]]

\* BulkHandler, action rerun, up to the notify loop: the update, which may
\* fail (500) or match no row (nothing is notified); when it matched a row,
\* the loop is over the ids of the request. One bulk request is made in a
\* behaviour.
RerunReset(user, ids) ==
    /\ ~Crashed
    /\ calls < MaxCalls
    /\ bulk.pc = "idle"
    /\ \/ /\ urls' = ResetURLs(user, ids)
          /\ bulk' = IF \E i \in DOMAIN urls : Matches(user, ids, i)
                     THEN [pc |-> "notify", todo |-> ids, sent |-> {}]
                     ELSE [pc |-> "done", todo |-> <<>>, sent |-> {}]
          /\ UNCHANGED storeFails
       \/ /\ StoreFails
          /\ bulk' = [pc |-> "done", todo |-> <<>>, sent |-> {}]
          /\ UNCHANGED urls
    /\ UNCHANGED <<pool, wlocals, calllog, stopCalled>>
    /\ UNCHANGED analysis

\* BulkHandler, one turn of the loop over req.IDs: NotifyNewURL(id), whose
\* error is logged only; its panic ends the handler (gin.Recovery).
RerunNotify ==
    /\ bulk.pc = "notify"
    /\ bulk.todo # <<>>
    /\ NotifyNewURL(Head(bulk.todo))
    /\ bulk' = IF ret'.out = "panic"
               THEN [bulk EXCEPT !.pc = "done", !.todo = <<>>]
               ELSE [bulk EXCEPT !.todo = Tail(@),
                                 !.sent = IF ret'.out = "ok"
                                          THEN @ \cup {Head(bulk.todo)} ELSE @]

\* BulkHandler after the loop: the 200 response.
RerunReturn ==
    /\ bulk.pc = "notify"
    /\ bulk.todo = <<>>
    /\ bulk' = [bulk EXCEPT !.pc = "done"]
    /\ UNCHANGED <<pool, urls, wlocals, calllog, stopCalled, storeFails>>
    /\ UNCHANGED analysis

\* BulkHandler, action delete: the delete, which may fail (500); the crawler
\* is not told.
BulkDelete(user, ids) ==
    /\ ~Crashed
    /\ bulk.pc = "idle"
    /\ \/ /\ urls' = DeleteURLs(user, ids)
          /\ UNCHANGED storeFails
       \/ /\ StoreFails
          /\ UNCHANGED urls
    /\ bulk' = [pc |-> "done", todo |-> <<>>, sent |-> {}]
    /\ UNCHANGED <<pool, wlocals, calllog, stopCalled>>
    /\ UNCHANGED analysis

\* ---------------------------------------------------------------- workers
\* What processURL's return leaves of a worker's locals.
Back(w) ==
    /\ wpc' = [wpc EXCEPT ![w] = "select"]
    /\ wjob' = [wjob EXCEPT ![w] = 0]
    /\ wcode' = [wcode EXCEPT ![w] = 0]
    /\ wres' = [wres EXCEPT ![w] = 0]
    /\ werr' = [werr EXCEPT ![w] = NoError]

\* (variant: a worker takes Service.mu before it leaves)
ExitLocked(w) ==
    /\ mu = "free"
    /\ wpc' = [wpc EXCEPT ![w] = "none"]
    /\ wg' = wg - 1
    /\ UNCHANGED <<isRunning, queue, closed, cancelled, mu, urls,
                   wjob, wcode, wres, werr, calllog, stopCalled, storeFails>>
    /\ UNCHANGED <<analysis, bulk>>

\* worker's return: the deferred wg.Done().
Exit(w) ==
    /\ wpc' = [wpc EXCEPT ![w] = "none"]
    /\ wg' = wg - 1
    /\ UNCHANGED <<isRunning, queue, closed, cancelled, mu, urls,
                   wjob, wcode, wres, werr, calllog, stopCalled, storeFails>>
    /\ UNCHANGED <<analysis, bulk>>

\* (variant: the receive hands out the id buffered last)
ReceiveLast(w) ==
    /\ ~Crashed
    /\ wpc[w] = "select"
    /\ queue # <<>>
    /\ queue' = SubSeq(queue, 1, Len(queue) - 1)
    /\ wjob' = [wjob EXCEPT ![w] = queue[Len(queue)]]
    /\ wpc' = [wpc EXCEPT ![w] = "get"]
    /\ UNCHANGED <<isRunning, closed, cancelled, wg, mu, urls,
                   wcode, wres, werr, calllog, stopCalled, storeFails>>
    /\ UNCHANGED <<analysis, bulk>>

\* select, case urlID, ok := <-s.queue with ok: a buffered id is received
\* (a closed channel still delivers what it buffers) and processURL begins.
Receive(w) ==
    /\ ~Crashed
    /\ wpc[w] = "select"
    /\ queue # <<>>
    /\ queue' = Tail(queue)
    /\ wjob' = [wjob EXCEPT ![w] = Head(queue)]
    /\ wpc' = [wpc EXCEPT ![w] = "get"]
    /\ UNCHANGED <<isRunning, closed, cancelled, wg, mu, urls,
                   wcode, wres, werr, calllog, stopCalled, storeFails>>
    /\ UNCHANGED <<analysis, bulk>>

\* select, case <-s.queue with !ok: the channel is closed and drained.
ReceiveClosed(w) ==
    /\ ~Crashed
    /\ wpc[w] = "select"
    /\ queue = <<>>
    /\ closed
    /\ Exit(w)

\* select, case <-s.ctx.Done(): chosen at random among the ready cases.
CtxDone(w) ==
    /\ ~Crashed
    /\ wpc[w] = "select"
    /\ cancelled
    /\ Exit(w)

\* (variant: processURL without the guard on url.Status)
GetURLNoGuard(w) ==
    /\ ~Crashed
    /\ wpc[w] = "get"
    /\ \/ /\ Found(wjob[w])
          /\ wpc' = [wpc EXCEPT ![w] = "setRunning"]
          /\ UNCHANGED <<wjob, wcode, wres, werr, storeFails>>
       \/ /\ ~Found(wjob[w])
          /\ Back(w)
          /\ UNCHANGED storeFails
       \/ /\ StoreFails
          /\ Back(w)
    /\ UNCHANGED <<pool, urls, calllog, stopCalled>>
    /\ UNCHANGED <<analysis, bulk>>

\* (variant: processURL goes on when GetURLByID finds no row)
GetURLIgnoreMissing(w) ==
    /\ ~Crashed
    /\ wpc[w] = "get"
    /\ \/ /\ ~Found(wjob[w]) \/ urls[wjob[w]].status = StatusQueued
          /\ wpc' = [wpc EXCEPT ![w] = "setRunning"]
          /\ UNCHANGED <<wjob, wcode, wres, werr, storeFails>>
       \/ /\ Found(wjob[w])
          /\ urls[wjob[w]].status # StatusQueued
          /\ Back(w)
          /\ UNCHANGED storeFails
       \/ /\ StoreFails
          /\ Back(w)
    /\ UNCHANGED <<pool, urls, calllog, stopCalled>>
    /\ UNCHANGED <<analysis, bulk>>

\* processURL, db.GetURLByID and the guard on url.Status.
GetURL(w) ==
    /\ ~Crashed
    /\ wpc[w] = "get"
    /\ \/ /\ Found(wjob[w])
          /\ urls[wjob[w]].status = StatusQueued
          /\ wpc' = [wpc EXCEPT ![w] = "setRunning"]
          /\ UNCHANGED <<wjob, wcode, wres, werr, storeFails>>
       \/ /\ Found(wjob[w])
          /\ urls[wjob[w]].status # StatusQueued
          /\ Back(w)
          /\ UNCHANGED storeFails
       \/ /\ ~Found(wjob[w])
          /\ Back(w)
          /\ UNCHANGED storeFails
       \/ /\ StoreFails
          /\ Back(w)
    /\ UNCHANGED <<pool, urls, calllog, stopCalled>>
    /\ UNCHANGED <<analysis, bulk>>

\* processURL, db.UpdateURLStatus(id, StatusRunning, "").
SetRunning(w) ==
    /\ ~Crashed
    /\ wpc[w] = "setRunning"
    /\ \/ /\ urls' = UpdateURLStatus(wjob[w], StatusRunning, NoError)
          /\ wpc' = [wpc EXCEPT ![w] = "fetch"]
          /\ UNCHANGED <<wjob, wcode, wres, werr, storeFails>>
       \/ /\ StoreFails
          /\ Back(w)
          /\ UNCHANGED urls
    /\ UNCHANGED <<pool, calllog, stopCalled>>
    /\ UNCHANGED <<analysis, bulk>>

\* (variant: the request is built without the pool's context)
FetchStartIgnoresCancel(w) ==
    /\ ~Crashed
    /\ wpc[w] = "fetch"
    /\ wpc' = [wpc EXCEPT ![w] = "fetching"]
    /\ UNCHANGED <<pool, urls, wjob, wcode, wres, werr, calllog, stopCalled, storeFails>>
    /\ UNCHANGED <<analysis, bulk>>

\* crawlWithContext, client.Do begins: a context already cancelled fails
\* the request before it is sent.
FetchStart(w) ==
    /\ ~Crashed
    /\ wpc[w] = "fetch"
    /\ IF cancelled
       THEN /\ wpc' = [wpc EXCEPT ![w] = "setError"]
            /\ werr' = [werr EXCEPT ![w] = FetchError(ErrCanceled)]
       ELSE /\ wpc' = [wpc EXCEPT ![w] = "fetching"]
            /\ UNCHANGED werr
    /\ UNCHANGED <<pool, urls, wjob, wcode, wres, calllog, stopCalled, storeFails>>
    /\ UNCHANGED <<analysis, bulk>>

\* (variant: the job's context is cancelled as soon as it is created, so a
\* fetch can end in a cancellation with no Stop)
FetchEndCancelEarly(w) ==
    /\ ~Crashed
    /\ wpc[w] = "fetching"
    /\ \/ \E cause \in {ErrDeadline, ErrCanceled} :
             /\ werr' = [werr EXCEPT ![w] = FetchError(cause)]
             /\ wpc' = [wpc EXCEPT ![w] = "setError"]
             /\ UNCHANGED <<wcode, wres>>
       \/ \E page \in Pages :
             /\ wcode' = [wcode EXCEPT ![w] = StatusOK]
             /\ wres' = [wres EXCEPT ![w] = page]
             /\ wpc' = [wpc EXCEPT ![w] = "persist"]
             /\ UNCHANGED werr
    /\ UNCHANGED <<pool, urls, wjob, calllog, stopCalled, storeFails>>
    /\ UNCHANGED <<analysis, bulk>>

\* crawlWithContext from the response on: transport error, timeout or
\* cancellation; a status other than 200; a body that cannot be read;
\* or the parsed document's CrawlResult.
FetchEnd(w) ==
    /\ ~Crashed
    /\ wpc[w] = "fetching"
    /\ \/ \E cause \in {ErrDeadline} \cup (IF cancelled THEN {ErrCanceled} ELSE {}) :
             /\ werr' = [werr EXCEPT ![w] = FetchError(cause)]
             /\ wpc' = [wpc EXCEPT ![w] = "setError"]
             /\ UNCHANGED <<wcode, wres>>
       \/ \E code \in StatusCodes \ {StatusOK} :
             /\ wcode' = [wcode EXCEPT ![w] = code]
             /\ werr' = [werr EXCEPT ![w] = HTTPError(code)]
             /\ wpc' = [wpc EXCEPT ![w] = "setError"]
             /\ UNCHANGED wres
       \/ /\ wcode' = [wcode EXCEPT ![w] = StatusOK]
          /\ werr' = [werr EXCEPT ![w] = ParseError]
          /\ wpc' = [wpc EXCEPT ![w] = "setError"]
          /\ UNCHANGED wres
       \/ \E page \in Pages :
             /\ wcode' = [wcode EXCEPT ![w] = StatusOK]
             /\ wres' = [wres EXCEPT ![w] = page]
             /\ wpc' = [wpc EXCEPT ![w] = "persist"]
             /\ UNCHANGED werr
    /\ UNCHANGED <<pool, urls, wjob, calllog, stopCalled, storeFails>>
    /\ UNCHANGED <<analysis, bulk>>

\* (variant: the result update leaves the status column alone)
PersistNoStatus(w) ==
    /\ ~Crashed
    /\ wpc[w] = "persist"
    /\ Back(w)
    /\ UNCHANGED <<pool, urls, calllog, stopCalled, storeFails>>
    /\ UNCHANGED <<analysis, bulk>>

\* processURL, s.updateURLWithResults(id, result).
Persist(w) ==
    /\ ~Crashed
    /\ wpc[w] = "persist"
    /\ \/ /\ urls' = updateURLWithResults(wjob[w], wres[w])
          /\ Back(w)
          /\ UNCHANGED storeFails
       \/ /\ StoreFails
          /\ werr' = [werr EXCEPT ![w] = ErrStore]
          /\ wpc' = [wpc EXCEPT ![w] = "setError"]
          /\ UNCHANGED <<urls, wjob, wcode, wres>>
    /\ UNCHANGED <<pool, calllog, stopCalled>>
    /\ UNCHANGED <<analysis, bulk>>

\* (variant: a failed crawl returns without recording the error)
SetErrorSkipped(w) ==
    /\ ~Crashed
    /\ wpc[w] = "setError"
    /\ Back(w)
    /\ UNCHANGED <<pool, urls, calllog, stopCalled, storeFails>>
    /\ UNCHANGED <<analysis, bulk>>

\* (variant: the worker gives up after a failed crawl: it returns from its
\* loop once the error is recorded)
SetErrorAndQuit(w) ==
    /\ ~Crashed
    /\ wpc[w] = "setError"
    /\ \/ /\ urls' = UpdateURLStatus(wjob[w], StatusError, werr[w])
          /\ UNCHANGED storeFails
       \/ /\ StoreFails
          /\ UNCHANGED urls
    /\ wpc' = [wpc EXCEPT ![w] = "none"]
    /\ wjob' = [wjob EXCEPT ![w] = 0]
    /\ wg' = wg - 1
    /\ UNCHANGED <<isRunning, queue, closed, cancelled, mu, wcode, wres, werr,
                   calllog, stopCalled>>
    /\ UNCHANGED <<analysis, bulk>>

\* (variant: the error status is written without the failure's message)
SetErrorNoMessage(w) ==
    /\ ~Crashed
    /\ wpc[w] = "setError"
    /\ \/ /\ urls' = UpdateURLStatus(wjob[w], StatusError, NoError)
          /\ UNCHANGED storeFails
       \/ /\ StoreFails
          /\ UNCHANGED urls
    /\ Back(w)
    /\ UNCHANGED <<pool, calllog, stopCalled>>
    /\ UNCHANGED <<analysis, bulk>>

\* (variant: a failed crawl is tried again instead of being recorded)
SetErrorRetry(w) ==
    /\ ~Crashed
    /\ wpc[w] = "setError"
    /\ wpc' = [wpc EXCEPT ![w] = "fetch"]
    /\ wcode' = [wcode EXCEPT ![w] = 0]
    /\ wres' = [wres EXCEPT ![w] = 0]
    /\ werr' = [werr EXCEPT ![w] = NoError]
    /\ UNCHANGED <<pool, urls, wjob, calllog, stopCalled, storeFails>>
    /\ UNCHANGED <<analysis, bulk>>

\* (variant: a failed write of the error status is tried again)
SetErrorRetryWrite(w) ==
    /\ ~Crashed
    /\ wpc[w] = "setError"
    /\ \/ /\ urls' = UpdateURLStatus(wjob[w], StatusError, werr[w])
          /\ Back(w)
          /\ UNCHANGED storeFails
       \/ /\ StoreFails
          /\ UNCHANGED <<urls, wlocals>>
    /\ UNCHANGED <<pool, calllog, stopCalled>>
    /\ UNCHANGED <<analysis, bulk>>

\* processURL, db.UpdateURLStatus(id, StatusError, err.Error()) and return;
\* a failed write is logged only.
SetError(w) ==
    /\ ~Crashed
    /\ wpc[w] = "setError"
    /\ \/ /\ urls' = UpdateURLStatus(wjob[w], StatusError, werr[w])
          /\ UNCHANGED storeFails
       \/ /\ StoreFails
          /\ UNCHANGED urls
    /\ Back(w)
    /\ UNCHANGED <<pool, calllog, stopCalled>>
    /\ UNCHANGED <<analysis, bulk>>

Worker(w) ==
    \/ Receive(w)
    \/ ReceiveClosed(w)
    \/ CtxDone(w)
    \/ GetURL(w)
    \/ SetRunning(w)
    \/ FetchStart(w)
    \/ FetchEnd(w)
    \/ Persist(w)
    \/ SetError(w)

Next ==
    \/ Start
    \/ StopBegin
    \/ StopEnd
    \/ \E id \in Ids : Submit(id)
    \/ \E w \in WorkerIds : Worker(w)

Spec == Init /\ [][Next]_vars

\* NotifyNewURL takes any uint: the same pool, with callers that also
\* submit ids the store may hold no row for.
QueueNext ==
    \/ Start
    \/ StopBegin
    \/ StopEnd
    \/ \E id \in SubmitIds : Submit(id)
    \/ \E w \in WorkerIds : Worker(w)

QueueSpec == Init /\ [][QueueNext]_vars

\* The page analysis on its own: a fetched document, the servers its links
\* point at, and parseDocument applied to it.
PageInit ==
    /\ NewService
    /\ DOMAIN urls = {}
    /\ doc \in Documents
    /\ respond = [u \in ProbeUrls |-> 200]
    /\ crawl = NoCrawl
    /\ probes = <<>>
    /\ row = NewRow
    /\ bulk = NoBulk

AnalysePage ==
    /\ crawl = NoCrawl
    /\ \E resp \in Responses :
          /\ respond' = resp
          /\ crawl' = parseDocument(doc, BaseAddress, resp)
          /\ probes' = analyzeLinks(doc, Parse(BaseAddress), resp).probed
    /\ UNCHANGED <<isRunning, queue, closed, cancelled, wg, mu, urls,
                   wpc, wjob, wcode, wres, werr, ret, stopBefore, calls,
                   stopCalled, storeFails, doc, row, bulk>>

PageNext == AnalysePage

PageSpec == PageInit /\ [][PageNext]_vars

\* The record's columns: a page, its analysis, and the writes the core and
\* the bulk handler make to the row, each an Updates(map).
LinkDocuments ==
    UNION {[1..n -> {e \in Elements : e.tag = "a"}] : n \in 0..MaxElems}

RowInit ==
    /\ PageInit
    /\ doc \in LinkDocuments

\* the frame of a write to the row
WritesRow ==
    UNCHANGED <<isRunning, queue, closed, cancelled, wg, mu, urls,
                wpc, wjob, wcode, wres, werr, ret, stopBefore, calls,
                stopCalled, storeFails, doc, respond, crawl, probes, bulk>>

\* processURL, db.UpdateURLStatus(id, StatusRunning, "")
WriteRunning ==
    /\ row.status = StatusQueued
    /\ row' = Updates(row, statusUpdates(StatusRunning, NoError))
    /\ WritesRow

\* processURL, db.UpdateURLStatus(id, StatusError, err.Error())
WriteError ==
    /\ row.status = StatusRunning
    /\ \E err \in {FetchError(ErrDeadline), ErrStore} :
          row' = Updates(row, statusUpdates(StatusError, err))
    /\ WritesRow

\* processURL, s.updateURLWithResults(id, result), once parseDocument has
\* produced the result
WriteResults ==
    /\ row.status = StatusRunning
    /\ crawl.HTMLVersion # ""
    /\ row' = Updates(row, resultUpdates(crawl))
    /\ WritesRow

\* BulkHandler, action rerun: the update of status and error
WriteRerun ==
    /\ row' = Updates(row, statusUpdates(StatusQueued, NoError))
    /\ WritesRow

RowNext ==
    \/ AnalysePage
    \/ WriteRunning
    \/ WriteError
    \/ WriteResults
    \/ WriteRerun

RowSpec == RowInit /\ [][RowNext]_vars

\* The pool with a client that also reruns records in bulk.
RerunNext ==
    \/ Next
    \/ \E ids \in BulkIds : RerunReset(Requester, ids)
    \/ RerunNotify
    \/ RerunReturn

RerunSpec == Init /\ [][RerunNext]_vars

\* The service over a store that holds rows of two users, none of them in
\* the queue (a submit that was rejected, or a restart of the process, leaves
\* a row queued and not enqueued).
SharedInit ==
    /\ isRunning = FALSE
    /\ queue = <<>>
    /\ closed = FALSE
    /\ cancelled = FALSE
    /\ wg = 0
    /\ mu = "free"
    /\ urls \in UNION {[S -> {NewURL}] : S \in SUBSET SubmitIds}
    /\ wpc = [w \in WorkerIds |-> "none"]
    /\ wjob = [w \in WorkerIds |-> 0]
    /\ wcode = [w \in WorkerIds |-> 0]
    /\ wres = [w \in WorkerIds |-> 0]
    /\ werr = [w \in WorkerIds |-> NoError]
    /\ ret = Called("none", 0, "none")
    /\ stopBefore = FALSE
    /\ calls = 0
    /\ stopCalled = FALSE
    /\ storeFails = 0
    /\ doc = <<>>
    /\ respond = [u \in ProbeUrls |-> 200]
    /\ crawl = NoCrawl
    /\ probes = <<>>
    /\ row = NewRow
    /\ bulk = NoBulk

\* The pool with one client, the requester, whose only request is one bulk
\* rerun or delete: nobody submits an id, so that without the request no
\* row would ever be written.
SharedNext ==
    \/ Start
    \/ StopBegin
    \/ StopEnd
    \/ \E w \in WorkerIds : Worker(w)
    \/ \E ids \in AnyBulkIds : RerunReset(Requester, ids)
    \/ RerunNotify
    \/ RerunReturn
    \/ \E ids \in AnyBulkIds : BulkDelete(Requester, ids)

SharedSpec == SharedInit /\ [][SharedNext]_vars

\* The Go scheduler runs every runnable goroutine: a worker that can take a
\* step takes it, and a Stop whose wait is over returns. Every fetch ends
\* (client timeout); the calls of the environment are under no obligation.
FairSpec ==
    /\ Spec
    /\ \A w \in WorkerIds : WF_vars(Worker(w))
    /\ WF_vars(StopEnd)

\* The same with the bulk handler, whose goroutine also runs once it has
\* started: its notify loop goes on and it returns.
RerunFairSpec ==
    /\ RerunSpec
    /\ \A w \in WorkerIds : WF_vars(Worker(w))
    /\ WF_vars(StopEnd)
    /\ WF_vars(RerunNotify)
    /\ WF_vars(RerunReturn)

\* ------------------------------------------------------------ vocabulary
\* the step is a call of the lifecycle operation op
IsCall(op) == calls' = calls + 1 /\ ret'.op = op

\* the pool is stopped and no Stop is in progress
Stopped == ~isRunning /\ mu = "free" /\ ~Crashed

\* worker w has written status running for its job and not yet ended it
InFlight(w) == wpc[w] \in {"fetch", "fetching", "persist", "setError"}

Terminal(id) == Found(id) /\ urls[id].status \in {StatusDone, StatusError}

\* the step is taken by worker w
Steps(w) == wpc'[w] # wpc[w]

\* the step is worker w's successful result update
PersistsResult(w) == wpc[w] = "persist" /\ wpc'[w] = "select"

\* parseDocument has produced the CrawlResult of doc
Analysed == crawl.HTMLVersion # ""

\* the positions of the anchors of doc that carry a non-empty href
LinkAnchors == {i \in 1..Len(doc) : doc[i].tag = "a" /\ doc[i].href # ""}

\* the href, resolved against the page address, has the page's host or none
SameHost(href) ==
    LET base == Parse(BaseAddress)
        p    == Parse(href)
        u    == IF IsAbs(p) THEN p ELSE ResolveReference(base, p)
    IN  u.host = "" \/ u.host = base.host

HeadingTags == {"h1", "h2", "h3", "h4", "h5", "h6"}

LiveWorkers == {w \in WorkerIds : wpc[w] # "none"}

\* sanity: the WaitGroup counts the live workers, and the types
TypeOK ==
    /\ isRunning \in BOOLEAN /\ closed \in BOOLEAN /\ cancelled \in BOOLEAN
    /\ mu \in {"free", "W"}
    /\ wg = Cardinality(LiveWorkers)
    /\ Len(queue) <= QueueSize
    /\ \A i \in 1..Len(queue) : queue[i] \in Ids \cup SubmitIds
    /\ DOMAIN urls \subseteq Ids
    /\ \A i \in DOMAIN urls : urls[i].status \in URLStatus
    /\ \A w \in WorkerIds : (wjob[w] = 0) = (wpc[w] \in {"none", "select"})
    /\ calls \in 0..MaxCalls
    /\ storeFails \in 0..MaxStoreFails
    /\ bulk.pc \in {"idle", "notify", "done"}
    /\ bulk.sent \subseteq Ids

\* ------------------------------------------------------------------ claims

\* C1: no job id is processed by two workers at the same time: for every
\* id, at most one worker is between writing status running for that id and
\* writing its terminal status, also when the same id is submitted more than
\* once while its record is still queued.
C1_NoConcurrentProcessing ==
    \A id \in Ids :
        Cardinality({w \in WorkerIds : InFlight(w) /\ wjob[w] = id}) <= 1

C3_SubmitWhileStopped ==
    [][(IsCall("submit") /\ ~isRunning)
        => (ret'.out = "NotRunning" /\ queue' = queue /\ urls' = urls)]_vars

C3_Witness ==
    /\ ret.op = "submit" /\ ret.out = "NotRunning"
    /\ stopCalled
    /\ queue # <<>>

\* C4: NotifyNewURL never blocks on capacity: while running, it returns
\* QueueFull and leaves the queue unchanged if QueueSize ids are pending,
\* otherwise it appends the id and returns ok; at most QueueSize ids are
\* ever pending.
C4_Backpressure ==
    [][/\ Len(queue') <= QueueSize
       /\ (IsCall("submit") /\ isRunning)
            => IF Len(queue) >= QueueSize
               THEN ret'.out = "QueueFull" /\ queue' = queue
               ELSE ret'.out = "ok" /\ queue' = Append(queue, ret'.arg)]_vars

\* C5: for every sequence of Start, Stop and NotifyNewURL calls, Start
\* after a Stop included, each call ends in one of its declared outcomes:
\* none sends on a closed queue or closes a closed queue (none panics).
C5_DeclaredOutcomes ==
    /\ ret.op = "start" => ret.out \in {"ok", "AlreadyRunning"}
    /\ ret.op = "stop" => ret.out \in {"ok", "waiting"}
    /\ ret.op = "submit" => ret.out \in {"ok", "NotRunning", "QueueFull"}

\* C6: Start called while the pool is running returns AlreadyRunning and
\* changes nothing: no worker is spawned (N stay live), the running flag
\* and the queue are unchanged.
C6_StartWhileRunning ==
    [][(IsCall("start") /\ isRunning)
        => /\ ret'.out = "AlreadyRunning"
           /\ UNCHANGED <<isRunning, queue, closed, cancelled, wg, mu, wpc, wjob>>
           /\ (~stopCalled => Cardinality(LiveWorkers') = NumWorkers)]_vars

C6_Witness ==
    /\ ret = Called("start", 0, "AlreadyRunning")
    /\ Cardinality(LiveWorkers) = NumWorkers

\* C7: Stop is idempotent: a Stop called right after a Stop has returned
\* returns ok and leaves the running flag, the queue, the cancellation
\* signal and the worker set as the first call left them.
C7_StopIdempotent ==
    [][(IsCall("stop") /\ ret = Called("stop", 0, "ok"))
        => /\ ret' = Called("stop", 0, "ok")
           /\ UNCHANGED <<isRunning, queue, closed, cancelled, wg, mu, wpc, wjob>>]_vars

C7_Witness ==
    /\ ret = Called("stop", 0, "ok")
    /\ stopBefore
    /\ stopCalled

\* C8: Stop called after Start returns only when every worker spawned by
\* that Start has exited: where Stop has returned, no worker is live and
\* none is inside the per-job pipeline.
C8_StopWaitsForWorkers ==
    ret = Called("stop", 0, "ok")
        => /\ wg = 0
           /\ LiveWorkers = {}
           /\ \A w \in WorkerIds : wjob[w] = 0

C8_Witness ==
    /\ ret = Called("stop", 0, "ok")
    /\ stopCalled
    /\ \E id \in DOMAIN urls : urls[id].status # StatusQueued

\* C9: after a clean Stop has returned no record is left with status
\* running, provided the store's calls succeeded: every job a worker moved
\* to running was moved to done or error before that worker exited.
C9_NoRunningAfterStop ==
    (stopCalled /\ Stopped /\ storeFails = 0)
        => \A id \in DOMAIN urls : urls[id].status # StatusRunning

C9_Witness ==
    /\ stopCalled /\ Stopped /\ storeFails = 0
    /\ \E id \in DOMAIN urls : urls[id].status = StatusError
                               /\ urls[id].error = FetchError(ErrCanceled)

\* C10 (as stated): a job whose fetch returned an HTTP status other than
\* 200 ends with record status error and an error message that contains
\* the numeric status code; the page is not parsed and no CrawlResult is
\* persisted.
C10_Non200EndsInError ==
    [][\A w \in WorkerIds :
        (wpc[w] = "setError" /\ wcode[w] \notin {0, StatusOK}
            /\ wpc'[w] = "select" /\ Found(wjob[w]))
        => /\ urls'[wjob[w]].status = StatusError
           /\ MentionsCode(urls'[wjob[w]].error, wcode[w])
           /\ wres[w] = 0
           /\ urls'[wjob[w]].result = urls[wjob[w]].result]_vars

\* C10 (amended): a job whose fetch returned an HTTP status other than 200
\* ends with record status error and an error message that contains the
\* numeric status code, provided the store write of that status succeeds;
\* the page is not parsed and no CrawlResult is persisted.
C10_Non200EndsInErrorIfWritten ==
    [][\A w \in WorkerIds :
        (wpc[w] = "setError" /\ wcode[w] \notin {0, StatusOK}
            /\ wpc'[w] = "select" /\ Found(wjob[w]))
        => /\ storeFails' = storeFails
                => /\ urls'[wjob[w]].status = StatusError
                   /\ MentionsCode(urls'[wjob[w]].error, wcode[w])
           /\ wres[w] = 0
           /\ urls'[wjob[w]].result = urls[wjob[w]].result]_vars

C10_Witness ==
    \E id \in DOMAIN urls :
        /\ urls[id].status = StatusError
        /\ MentionsCode(urls[id].error, 404)
        /\ urls[id].result = 0

\* C11: on every failure path of a job (fetch error, timeout, cancellation,
\* non-200, parse failure, result-persistence failure) the job leaves the
\* result fields of its record as they are: every step a worker takes for a
\* job, other than the successful result update, changes at most the status
\* and the error of that job's record and nothing of any other record.
C11_FailureLeavesResult ==
    [][\A w \in WorkerIds :
        (wjob[w] # 0 /\ Steps(w) /\ ~PersistsResult(w))
        => \A id \in DOMAIN urls :
              /\ urls'[id].result = urls[id].result
              /\ id # wjob[w] => urls'[id] = urls[id]]_vars

C11_Witness ==
    \E id \in DOMAIN urls :
        /\ urls[id].status = StatusError
        /\ urls[id].error # NoError
        /\ urls[id].result \in Pages

\* C12: when a job completes successfully, one store update sets status
\* done, clears the error and writes the CrawlResult together: a record
\* becomes done, or gets new result fields, only in a step that leaves it
\* with status done, the empty error and the result the worker computed in
\* that crawl, so a done record never shows an error.
C12_DoneWrittenTogether ==
    [][\A id \in DOMAIN urls :
        /\ (urls'[id] # urls[id]
              /\ (urls'[id].status = StatusDone
                    \/ urls'[id].result # urls[id].result))
            => \E w \in WorkerIds :
                  /\ wpc[w] = "persist" /\ wjob[w] = id /\ wres[w] \in Pages
                  /\ urls'[id] = [status |-> StatusDone, error |-> NoError,
                                  result |-> wres[w]]
        /\ urls'[id].status = StatusDone => urls'[id].error = NoError]_vars

C12_Witness ==
    \E id \in DOMAIN urls :
        /\ urls[id].status = StatusDone
        /\ urls[id].error = NoError
        /\ urls[id].result \in Pages
        /\ \A w \in WorkerIds : wjob[w] # id

\* C13: the queue is FIFO: the queue changes only by an accepted submit
\* putting its id at the end or by a worker being handed the id at the
\* front, so ids reach the workers in the order their submits were
\* accepted; there is no priority.
C13_FIFO ==
    [][/\ \A w \in WorkerIds :
            (wjob[w] = 0 /\ wjob'[w] # 0)
            => (queue # <<>> /\ wjob'[w] = Head(queue) /\ queue' = Tail(queue))
       /\ queue' # queue
            => \/ /\ IsCall("submit") /\ ret'.out = "ok"
                  /\ queue' = Append(queue, ret'.arg)
               \/ /\ \E w \in WorkerIds : wjob[w] = 0 /\ wjob'[w] # 0
                  /\ queue' = Tail(queue)]_vars

\* the queue was full at the latest call and one id has left it since: the
\* one at the front, now held by a worker, while a different id stays behind
C13_Witness ==
    /\ ret.op = "submit" /\ ret.out = "QueueFull"
    /\ Len(queue) = QueueSize - 1
    /\ \E w \in WorkerIds :
          /\ wpc[w] = "get"
          /\ \A i \in 1..Len(queue) : queue[i] # wjob[w]
          /\ \A v \in WorkerIds \ {w} : wjob[v] = 0

\* C14: a per-job pipeline failure is never propagated: whatever the outcome
\* of a job, the worker that ran it goes back to waiting on the queue and
\* nothing reaches a caller; a worker exits only from that wait, on
\* cancellation or on the closed queue, so in the pool's first run all N
\* workers are alive while it is running.
C14_WorkerSurvivesJob ==
    [][\A w \in WorkerIds :
        /\ (wjob[w] # 0 /\ wjob'[w] = 0)
            => (wpc'[w] = "select" /\ wg' = wg /\ ret' = ret)
        /\ (wpc[w] # "none" /\ wpc'[w] = "none")
            => (wpc[w] = "select" /\ (cancelled \/ closed))
        /\ (isRunning' /\ ~stopCalled')
            => Cardinality(LiveWorkers') = NumWorkers]_vars

C14_Witness ==
    /\ isRunning /\ ~stopCalled
    /\ storeFails > 0
    /\ \E id \in DOMAIN urls : urls[id].status = StatusRunning
    /\ \A w \in WorkerIds : wpc[w] = "select"

\* C15 (as stated): login-form detection returns true for every document
\* that contains an input element of type password anywhere, inside a form
\* element or not, and false for every document with no such element.
C15_PasswordAnywhere ==
    Analysed
    => (crawl.HasLoginForm
          = (\E i \in 1..Len(doc) :
                doc[i].tag = "input" /\ doc[i].type = "password"))

\* C15 (amended): login-form detection returns true for every document
\* that contains an input element of type password inside a form element,
\* and false for every other document, one whose only password inputs are
\* outside any form included.
C15_PasswordInForm ==
    Analysed
    => (crawl.HasLoginForm
          = (\E i \in 1..Len(doc) :
                doc[i].tag = "input" /\ doc[i].type = "password" /\ doc[i].form))

C15_Witness ==
    /\ Analysed
    /\ ~crawl.HasLoginForm
    /\ \E i \in 1..Len(doc) : doc[i].tag = "input" /\ doc[i].type = "password"

\* C16 (as stated): every anchor with a non-empty href is counted exactly
\* once, as internal if its href resolved against the page address has the
\* page's host or no host and as external otherwise; the two counts are the
\* numbers of anchors so classified.
C16_EveryAnchorCounted ==
    Analysed
    => /\ crawl.InternalLinks
            = Cardinality({i \in LinkAnchors : SameHost(doc[i].href)})
       /\ crawl.ExternalLinks
            = Cardinality({i \in LinkAnchors : ~SameHost(doc[i].href)})

\* C16 (amended): every distinct non-empty href string of the page's
\* anchors that parses as a URL is counted exactly once, as internal if it
\* resolves to the page's host or to no host and as external otherwise; an
\* anchor repeating an href already seen and an href that does not parse
\* are not counted.
C16_EveryHrefCounted ==
    LET hrefs == {h \in {doc[i].href : i \in LinkAnchors} : Parse(h).ok}
    IN  Analysed
        => /\ crawl.InternalLinks = Cardinality({h \in hrefs : SameHost(h)})
           /\ crawl.ExternalLinks = Cardinality({h \in hrefs : ~SameHost(h)})

C16_Witness ==
    /\ Analysed
    /\ crawl.InternalLinks = 1 /\ crawl.ExternalLinks = 1
    /\ Cardinality(LinkAnchors) = MaxElems
    /\ \A i \in LinkAnchors : Parse(doc[i].href).ok

\* C17: the heading counts of an analysed page have exactly the six keys
\* h1..h6, each mapped to the number of elements of that tag in the
\* document, 0 for a tag that does not occur.
C17_HeadingCounts ==
    Analysed
    => /\ DOMAIN crawl.HeadingCounts = HeadingTags
       /\ \A t \in HeadingTags :
             crawl.HeadingCounts[t]
                = Cardinality({i \in 1..Len(doc) : doc[i].tag = t})

C17_Witness ==
    /\ Analysed
    /\ crawl.HeadingCounts["h1"] = 1 /\ crawl.HeadingCounts["h2"] = 2
    /\ \A t \in HeadingTags \ {"h1", "h2"} : crawl.HeadingCounts[t] = 0

\* C18: when a worker dequeues an id whose record has a status other than
\* queued, it aborts the job: it goes back to waiting without a store write
\* and without a fetch, and the record is left as it was.
C18_GuardAborts ==
    [][\A w \in WorkerIds :
        (wpc[w] = "get" /\ Steps(w) /\ Found(wjob[w])
            /\ urls[wjob[w]].status # StatusQueued)
        => (wpc'[w] = "select" /\ wjob'[w] = 0 /\ urls' = urls)]_vars

C18_Witness ==
    \E w \in WorkerIds :
        /\ wpc[w] = "get"
        /\ Found(wjob[w])
        /\ urls[wjob[w]].status = StatusDone
        /\ \A v \in WorkerIds \ {w} : wjob[v] = 0

\* C19 (as stated): every step from the transition to running onwards is a
\* hard gate: if the status write to running, the fetch, the 200 check, the
\* parse or the result persistence fails, no later step is executed and the
\* record ends with status error and that failure's message.
C19_FailureEndsInError ==
    [][\A w \in WorkerIds :
        (wpc[w] \in {"setRunning", "setError"} /\ wpc'[w] = "select"
            /\ Found(wjob[w]))
        => /\ urls'[wjob[w]].status = StatusError
           /\ urls'[wjob[w]].error # NoError]_vars

\* C19 (amended): a failed status write to running aborts the job with no
\* further write; a failure of the fetch, the 200 check, the parse or the
\* result persistence skips every later step and goes to the error write,
\* which, if it succeeds, leaves the record with status error and that
\* failure's message.
C19_FailureEndsInErrorIfWritten ==
    [][\A w \in WorkerIds :
        /\ (wpc[w] = "setRunning" /\ wpc'[w] = "select") => urls' = urls
        /\ (Steps(w) /\ (werr'[w] # werr[w] \/ wcode'[w] \notin {0, StatusOK}))
            => wpc'[w] \in {"setError", "select"}
        /\ (wpc[w] = "setError" /\ Steps(w))
            => /\ wpc'[w] = "select"
               /\ werr[w] # NoError
               /\ (storeFails' = storeFails /\ Found(wjob[w]))
                    => /\ urls'[wjob[w]].status = StatusError
                       /\ urls'[wjob[w]].error = werr[w]]_vars

C19_Witness ==
    \E id \in DOMAIN urls :
        /\ urls[id].status = StatusError
        /\ urls[id].error = ErrStore
        /\ urls[id].result = 0

\* C20: when a worker dequeues an id for which the store has no record, the
\* job is aborted silently: the worker goes back to waiting, no record is
\* written or created, no fetch is made and no caller is told.
C20_MissingRecordAborts ==
    [][\A w \in WorkerIds :
        (wpc[w] = "get" /\ Steps(w) /\ ~Found(wjob[w]))
        => /\ wpc'[w] = "select" /\ wjob'[w] = 0
           /\ urls' = urls
           /\ wcode'[w] = 0 /\ wres'[w] = 0
           /\ ret' = ret]_vars

C20_Witness ==
    \E w \in WorkerIds :
        /\ wpc[w] = "get"
        /\ ~Found(wjob[w])

\* C21: within one start/stop lifecycle (no Start has been accepted after a
\* Stop) a submit never races with Stop: it runs while no Stop is in
\* progress, and either finds the pool running with its queue open and
\* returns ok or QueueFull, or finds the flag cleared and returns NotRunning;
\* it never sees the flag set with the queue closed.
C21_SubmitNeverRacesStop ==
    [][(IsCall("submit") /\ ~(isRunning /\ stopCalled)) =>
          /\ mu = "free"
          /\ ~(isRunning /\ closed)
          /\ \/ isRunning /\ ~closed /\ ret'.out \in {"ok", "QueueFull"}
             \/ ~isRunning /\ ret'.out = "NotRunning" /\ queue' = queue]_vars

\* a submit made right after a Stop that shut the pool down and returned
C21_Witness ==
    /\ stopCalled /\ stopBefore /\ ~isRunning /\ closed
    /\ ret.op = "submit" /\ ret.out = "NotRunning"

\* C22 (as stated): Stop drains gracefully: a job whose fetch has started
\* when Stop is called is allowed to finish, so its fetch ends in a result
\* or in a failure of its own; Stop does not make it fail, i.e. no started
\* fetch ends in a cancellation.
C22_StopLeavesInFlight ==
    [][\A w \in WorkerIds :
          (wpc[w] = "fetching" /\ Steps(w)) =>
              werr'[w] # FetchError(ErrCanceled)]_vars

\* C22 (amended): Stop itself writes no record and interrupts no worker,
\* but it cancels the context every fetch inherits: a started fetch ends in
\* a result, in a failure of its own (transport error or timeout, status
\* other than 200, unreadable body), or, only once Stop has cancelled the
\* context, in a cancellation.
C22_StopCancelsInFlight ==
    [][/\ (ret' # ret /\ ret'.op = "stop") => (wlocals' = wlocals /\ urls' = urls)
       /\ \A w \in WorkerIds :
             (wpc[w] = "fetching" /\ Steps(w)) =>
                 \/ wpc'[w] = "persist" /\ wres'[w] \in Pages
                 \/ /\ wpc'[w] = "setError"
                    /\ werr'[w] \in {FetchError(ErrDeadline), ParseError}
                                     \cup {HTTPError(c) : c \in StatusCodes \ {StatusOK}}
                 \/ /\ wpc'[w] = "setError"
                    /\ werr'[w] = FetchError(ErrCanceled)
                    /\ cancelled /\ stopCalled]_vars

\* Stop waits on a worker whose fetch, started before the Stop (a fetch
\* never starts once the context is cancelled), has been cancelled or has
\* produced its result
C22_Witness ==
    /\ mu = "W"
    /\ \E w \in WorkerIds : wpc[w] = "persist"
    /\ \E w \in WorkerIds : wpc[w] = "setError" /\ werr[w] = FetchError(ErrCanceled)

\* C23: there is no automatic retry. Only an accepted submit puts an id in
\* the queue; a worker takes a job only by dequeuing an id, goes on to the
\* fetch only for a record it read as queued, starts at most one fetch for
\* the job, and after the fetch only records the outcome and drops the job:
\* a failed job is never fetched again by the pool itself.
C23_NoAutomaticRetry ==
    [][/\ Len(queue') > Len(queue) =>
             /\ IsCall("submit") /\ ret'.out = "ok"
             /\ queue' = Append(queue, ret'.arg)
       /\ \A w \in WorkerIds :
             Steps(w) =>
                 /\ wpc'[w] = "get" =>
                        wpc[w] = "select" /\ queue = <<wjob'[w]>> \o queue'
                 /\ wpc'[w] = "setRunning" =>
                        /\ wpc[w] = "get" /\ Found(wjob[w])
                        /\ urls[wjob[w]].status = StatusQueued
                 /\ wpc'[w] = "fetch" => wpc[w] = "setRunning"
                 /\ wpc'[w] = "fetching" => wpc[w] = "fetch"
                 /\ wpc[w] = "persist" => wpc'[w] \in {"setError", "select"}
                 /\ wpc[w] = "setError" => wpc'[w] = "select" /\ wjob'[w] = 0]_vars

\* a job has ended in error and the running pool is idle: nothing is queued
\* and no worker holds a job
C23_Witness ==
    /\ isRunning /\ queue = <<>> /\ storeFails = 0
    /\ \A w \in WorkerIds : wpc[w] = "select"
    /\ \E id \in Ids : Found(id) /\ urls[id].status = StatusError

\* C24: the broken list holds, in the order of the probes (document
\* order), one entry {url, code} for each probe that yielded a code of 400
\* or more and none for a probe that yielded less; a probe always yields a
\* code: the server's, or 500 when the request cannot be sent (a scheme
\* that is not HTTP) or the server does not answer.
C24_BrokenList ==
    Analysed =>
        LET Broken == {k \in 1..Len(probes) : probes[k].code >= 400}
        IN  /\ \A k \in 1..Len(probes) :
                  LET u == probes[k].url
                  IN  /\ probes[k].code \in {200, 404, 500}
                      /\ (u \in ProbeUrls /\ respond[u] # 0) => probes[k].code = respond[u]
                      /\ (u \notin ProbeUrls \/ respond[u] = 0) => probes[k].code = 500
            /\ \A k \in 1..Len(probes) : \A j \in 1..Len(probes) :
                  (j < k) =>
                      \E a \in LinkAnchors : \E b \in LinkAnchors :
                          /\ a < b
                          /\ doc[a].href = probes[j].href
                          /\ doc[b].href = probes[k].href
                          /\ \A c \in LinkAnchors : c < b => doc[c].href # probes[k].href
            /\ Len(crawl.BrokenList) = Cardinality(Broken)
            /\ \A k \in Broken :
                  crawl.BrokenList[Cardinality({j \in Broken : j <= k})] =
                      [url |-> probes[k].url, code |-> Itoa(probes[k].code)]

\* three links probed: one answers 200 and is not listed, then one answers
\* 404 and one cannot be sent, listed in that order
C24_Witness ==
    /\ Analysed
    /\ Len(probes) = 3
    /\ probes[1].code = 200
    /\ Len(crawl.BrokenList) = 2
    /\ crawl.BrokenList[1].code = "404"
    /\ crawl.BrokenList[2] = [url |-> "mailto:a@b", code |-> "500"]

\* C25: an href string that occurs several times in a page is probed at
\* most once, and contributes at most one entry to the broken list: the
\* list has no more entries for a link than the page has distinct href
\* strings that resolve to it.
C25_ProbedOnce ==
    Analysed =>
        /\ \A j \in 1..Len(probes) : \A k \in 1..Len(probes) :
              probes[j].href = probes[k].href => j = k
        /\ \A e \in {crawl.BrokenList[k] : k \in 1..Len(crawl.BrokenList)} :
              Cardinality({k \in 1..Len(crawl.BrokenList) : crawl.BrokenList[k].url = e.url})
                 <= Cardinality({h \in {doc[i].href : i \in LinkAnchors} :
                        /\ Parse(h).ok
                        /\ String(IF IsAbs(Parse(h)) THEN Parse(h)
                                  ELSE ResolveReference(Parse(BaseAddress), Parse(h))) = e.url})

\* a page whose three anchors carry the same href, which is broken
C25_Witness ==
    /\ Analysed
    /\ Len(doc) = 3
    /\ \A i \in 1..3 : doc[i].tag = "a" /\ doc[i].href = doc[1].href
    /\ Len(probes) = 1
    /\ Len(crawl.BrokenList) = 1

\* C26: at most NumWorkers jobs are in flight at any moment: the pool never
\* has more than NumWorkers live worker goroutines (the WaitGroup counts
\* them), only a live worker holds a job, and it holds one at a time.
C26_BoundedConcurrency ==
    LET Busy == {w \in WorkerIds : wjob[w] # 0}
    IN  /\ wg <= NumWorkers
        /\ wg = Cardinality(LiveWorkers)
        /\ Busy \subseteq LiveWorkers
        /\ Cardinality(Busy) <= wg
        /\ \A w \in Busy : wjob[w] \in Ids

\* every worker of the pool holds a job
C26_Witness ==
    /\ wg = NumWorkers
    /\ \A w \in WorkerIds : wjob[w] # 0

\* C27: when the store write of the error status fails, the write is not
\* tried again: the worker drops the job and goes back to its loop, still
\* alive, and the record keeps what it held before the write.
C27_FailedErrorWriteAbandons ==
    [][\A w \in WorkerIds :
          (/\ wpc[w] = "setError"
           /\ storeFails' # storeFails
           /\ \A v \in WorkerIds \ {w} : wpc'[v] = wpc[v]) =>
              /\ urls' = urls
              /\ wpc'[w] = "select" /\ wjob'[w] = 0
              /\ wg' = wg]_vars

\* a record left running with no worker holding its id: the running write
\* succeeded, the job failed, and the write of the error status failed
C27_Witness ==
    /\ storeFails > 0
    /\ \E id \in Ids :
          /\ Found(id) /\ urls[id].status = StatusRunning
          /\ \A w \in WorkerIds : wjob[w] # id
    /\ \A w \in WorkerIds : wpc[w] = "select"
    /\ queue = <<>>

\* C29: the only status transitions the pool performs are queued ->
\* running, running -> done and running -> error: it writes running only
\* onto a record that is queued, and done or error only onto a record that
\* is running, in any interleaving of the workers.
C29_StatusTransitions ==
    [][/\ \A id \in DOMAIN urls :
             urls'[id].status # urls[id].status =>
                 <<urls[id].status, urls'[id].status>> \in
                     {<<StatusQueued, StatusRunning>>,
                      <<StatusRunning, StatusDone>>,
                      <<StatusRunning, StatusError>>}
       /\ \A w \in WorkerIds :
             /\ (wpc[w] = "setRunning" /\ wpc'[w] = "fetch") =>
                    urls[wjob[w]].status = StatusQueued
             /\ PersistsResult(w) => urls[wjob[w]].status = StatusRunning
             /\ (wpc[w] = "setError" /\ Steps(w) /\ storeFails' = storeFails) =>
                    urls[wjob[w]].status = StatusRunning]_vars

\* C30 (as stated): an id still buffered when Stop is called is never
\* crawled successfully: once Stop has returned its record is queued (the
\* id was discarded with the queue) or error, never done or running. Stated
\* for the ids that are still in the closed queue, which were all buffered
\* when Stop was called.
C30_BufferedNeverDone ==
    (stopCalled /\ Stopped) =>
        \A i \in 1..Len(queue) :
            Found(queue[i]) =>
                urls[queue[i]].status \in {StatusQueued, StatusError}

\* C30 (amended): no fetch starts once Stop has cancelled the context: the
\* fetch of a job that reaches it afterwards fails at once with a
\* cancellation and writes nothing, so a job dequeued after the Stop never
\* records a result; nothing enters the closed queue, whose remaining ids
\* are left where they are.
C30_NoFetchAfterCancel ==
    [][/\ \A w \in WorkerIds :
             /\ (Steps(w) /\ wpc'[w] = "fetching") => ~cancelled
             /\ (cancelled /\ wpc[w] = "fetch" /\ Steps(w)) =>
                    /\ wpc'[w] = "setError"
                    /\ werr'[w] = FetchError(ErrCanceled)
                    /\ wres'[w] = 0
                    /\ urls' = urls
       /\ closed => (queue' = queue \/ (queue # <<>> /\ queue' = Tail(queue)))]_vars

\* the pool is stopped; of the ids buffered at the Stop one was dequeued
\* and its fetch was cancelled, one is left in the closed queue
C30_Witness ==
    /\ stopCalled /\ Stopped /\ storeFails = 0
    /\ Len(queue) = 1
    /\ Found(queue[1])
    /\ urls[queue[1]] = [status |-> StatusError, error |-> FetchError(ErrCanceled),
                         result |-> 0]

\* C28: a bulk rerun that has reset a record to queued and whose submit
\* was accepted always leads to a new crawl of it, also when an earlier run
\* of the id is still in flight: from any state where the rerun's submit
\* has been accepted and the record is still queued with no job past the
\* guard on it since the reset, a job eventually passes the guard on the
\* record. Runs in which Stop is called or a store call fails are left
\* out, which only weakens the statement.
C28_RerunLeadsToCrawl ==
    \A id \in Ids :
        (/\ id \in bulk.sent
         /\ Found(id) /\ urls[id].status = StatusQueued
         /\ \A w \in WorkerIds : ~(wjob[w] = id /\ wpc[w] = "setRunning"))
        ~> \/ \E w \in WorkerIds : wjob[w] = id /\ wpc[w] = "setRunning"
           \/ stopCalled
           \/ storeFails > 0

\* C31: Stop always terminates: under fair scheduling, with every fetch
\* and store call returning, a Stop that holds the lock and waits for the
\* workers eventually returns and releases the lock (so that a Start or
\* submit waiting for it can run), whatever the workers hold and whatever
\* is left in the queue.
C31_StopTerminates ==
    (mu = "W") ~> (mu = "free" /\ ret = Called("stop", 0, "ok") /\ wg = 0)

\* Stop waits while every worker is live, one is in the middle of a fetch
\* and an id is still buffered
C31_Witness ==
    /\ mu = "W"
    /\ wg = NumWorkers
    /\ queue # <<>>
    /\ \E w \in WorkerIds : wpc[w] = "fetching"

C33_OtherUsersUnchanged ==
    [][\A id \in SubmitIds :
          (UserID(id) # Requester /\ Found(id)) =>
              /\ id \in DOMAIN urls'
              /\ urls'[id] = urls[id]]_vars

====
